---- MODULE Spec2Model ----
(***************************************************************************)
(* Docking-station firmware (door motor, landing-plate motor, wireless     *)
(* power relay).  Two sketches exist:                                      *)
(*   - RosStationCommunication.cpp : the dual-channel station (a raw ROS   *)
(*     command channel on port 23 and a web channel on port 80);           *)
(*   - Station.cpp : the single-channel station with photo-sensor guards.  *)
(* A board runs exactly one of them; `variant` says which.                 *)
(***************************************************************************)
EXTENDS Integers, Sequences, FiniteSets, TLC

VARIABLES
    variant,             \* "dual" (RosStationCommunication.cpp) or "single" (Station.cpp)
    pc,                  \* position of the single thread inside loop()
    frame,               \* the sequence function being executed, if any
    hw,                  \* output pins, the pin writes of this iteration, elapsed ms
    wirelessPowerState,  \* 0: on, 1: off
    alreadyConnected,    \* RosStationCommunication.cpp:8
    rosPeer, webPeer,    \* a peer is connected to ros_server / web_server
    rosRx, webRx,        \* bytes received and not yet read, oldest first
    ros_client, web_client,  \* the locals of loop(): is the client object valid
                             \* (between iterations: was it, in the last one)
    rosCommand, webCommand,  \* the local `command` of each switch, "none" before the read
    rosTx, webTx,        \* bytes written to each server in this iteration
    serial,              \* lines printed to Serial in this iteration
    peer, rx,            \* Station.cpp: connected peer of `server`, its unread bytes
    photo,               \* levels of the two photo-sensor input pins
    client, command,     \* Station.cpp locals of loop()
    isDoorClosed, isPlateIn  \* Station.cpp locals: the sensor snapshot

dualVars == <<wirelessPowerState, alreadyConnected, rosPeer, webPeer, rosRx, webRx,
              ros_client, web_client, rosCommand, webCommand, rosTx, webTx, frame>>
stationVars == <<peer, rx, photo, client, command, isDoorClosed, isPlateIn>>
vars == <<variant, pc, hw, serial, dualVars, stationVars>>

---------------------------------------------------------------------------
(* Bounds *)

\* Most bytes that may be received and unread at once, over all channels.
MaxPending == 2

---------------------------------------------------------------------------
(* Program constants *)

DOOR_DIRECTION_PIN  == 4
DOOR_ENABLE_PIN     == 5
PLATE_DIRECTION_PIN == 6
PLATE_ENABLE_PIN    == 7
DOOR_PHOTO_PIN      == 8
PLATE_PHOTO_PIN     == 9
WPT_RELAY_PIN       == 10

DOOR_TIME  == 25000
PLATE_TIME == 45000

LOW  == "LOW"
HIGH == "HIGH"
Levels == {LOW, HIGH}

MotorPins  == {DOOR_DIRECTION_PIN, DOOR_ENABLE_PIN, PLATE_DIRECTION_PIN, PLATE_ENABLE_PIN}
\* pinMode(..., OUTPUT) of each sketch's setup()
RosOutputPins     == MotorPins \cup {WPT_RELAY_PIN}
StationOutputPins == MotorPins
PhotoPins == {DOOR_PHOTO_PIN, PLATE_PHOTO_PIN}

\* The bytes each switch has a case for.
RosAlphabet     == {"a", "b", "c", "d", "e", "f", "z", "x", "g"}
WebAlphabet     == {"A", "D", "B", "E", "C", "F", "G", "H", "I"}
StationAlphabet == {"A", "D", "B", "E", "G", "H", "I"}

\* The bytes a peer may send: every byte with a case, and two without.
RosBytes     == RosAlphabet \cup {"A", "q"}
WebBytes     == WebAlphabet \cup {"a", "Z"}
StationBytes == StationAlphabet \cup {"C", "a"}

---------------------------------------------------------------------------
(* Pin layer *)

\* digitalWrite(pin, level): the pin takes the level; the write is recorded
\* with the time it happened at.
digitalWrite(h, pin, level) ==
    [h EXCEPT !.pins[pin] = level,
              !.writes = Append(@, [pin |-> pin, level |-> level, at |-> h.now])]

\* delay(ms): the thread blocks; nothing else runs on the board.
delay(h, ms) == [h EXCEPT !.now = @ + ms]

---------------------------------------------------------------------------
(* Actuation primitives, RosStationCommunication.cpp *)

\* (mutant) only the door motor is disabled.
StopAllMotors_DoorOnly(h) ==
    digitalWrite(h, DOOR_ENABLE_PIN, HIGH)

StopAllMotors(h) ==
    digitalWrite(digitalWrite(h, DOOR_ENABLE_PIN, HIGH), PLATE_ENABLE_PIN, HIGH)

CloseDoor(h) ==
    digitalWrite(digitalWrite(h, DOOR_DIRECTION_PIN, HIGH), DOOR_ENABLE_PIN, LOW)

OpenDoor(h) ==
    digitalWrite(digitalWrite(h, DOOR_DIRECTION_PIN, LOW), DOOR_ENABLE_PIN, LOW)

\* (mutant) the retract direction is set but the motor is not enabled.
RetractPlate_NotEnabled(h) ==
    digitalWrite(h, PLATE_DIRECTION_PIN, HIGH)

RetractPlate(h) ==
    digitalWrite(digitalWrite(h, PLATE_DIRECTION_PIN, HIGH), PLATE_ENABLE_PIN, LOW)

ExtendPlate(h) ==
    digitalWrite(digitalWrite(h, PLATE_DIRECTION_PIN, LOW), PLATE_ENABLE_PIN, LOW)

EnableWirelessPower(h) == digitalWrite(h, WPT_RELAY_PIN, HIGH)

DisableWirelessPower(h) == digitalWrite(h, WPT_RELAY_PIN, LOW)

\* A function called by name from a switch case.
Call(f, h) ==
    CASE f = "ExtendPlate"   -> ExtendPlate(h)
      [] f = "RetractPlate"  -> RetractPlate(h)
      [] f = "OpenDoor"      -> OpenDoor(h)
      [] f = "CloseDoor"     -> CloseDoor(h)
      [] f = "StopAllMotors" -> StopAllMotors(h)
      [] OTHER               -> h

\* (mutant) the two delays of the take-off are exchanged.
TakeOffSequence_DelaysSwapped ==
    << [call |-> "OpenDoor",     ms |-> 0],
       [call |-> "delay",        ms |-> PLATE_TIME],
       [call |-> "ExtendPlate",  ms |-> 0],
       [call |-> "delay",        ms |-> DOOR_TIME] >>

\* (mutant) the landing closes the door at once and waits afterwards.
LandingSequence_NoWaitForPlate ==
    << [call |-> "RetractPlate", ms |-> 0],
       [call |-> "CloseDoor",    ms |-> 0],
       [call |-> "delay",        ms |-> PLATE_TIME],
       [call |-> "delay",        ms |-> DOOR_TIME] >>

\* (mutant) the landing returns as soon as the door was told to close.
LandingSequence_ReturnsEarly ==
    << [call |-> "RetractPlate", ms |-> 0],
       [call |-> "delay",        ms |-> PLATE_TIME],
       [call |-> "CloseDoor",    ms |-> 0] >>

\* (mutant) the take-off returns as soon as the plate was told to extend.
TakeOffSequence_NoFinalDelay ==
    << [call |-> "OpenDoor",      ms |-> 0],
       [call |-> "delay",         ms |-> DOOR_TIME],
       [call |-> "ExtendPlate",   ms |-> 0] >>

\* (mutant) the take-off stops both motors once the plate is out.
TakeOffSequence_StopsWhenDone ==
    << [call |-> "OpenDoor",      ms |-> 0],
       [call |-> "delay",         ms |-> DOOR_TIME],
       [call |-> "ExtendPlate",   ms |-> 0],
       [call |-> "delay",         ms |-> PLATE_TIME],
       [call |-> "StopAllMotors", ms |-> 0] >>

\* TakeOffSequence() and LandingSequence(): the statements of each body, in order.
TakeOffSequence ==
    << [call |-> "OpenDoor",     ms |-> 0],
       [call |-> "delay",        ms |-> DOOR_TIME],
       [call |-> "ExtendPlate",  ms |-> 0],
       [call |-> "delay",        ms |-> PLATE_TIME] >>

LandingSequence ==
    << [call |-> "RetractPlate", ms |-> 0],
       [call |-> "delay",        ms |-> PLATE_TIME],
       [call |-> "CloseDoor",    ms |-> 0],
       [call |-> "delay",        ms |-> DOOR_TIME] >>

Sequences == {"TakeOffSequence", "LandingSequence"}

Body(fn) == IF fn = "TakeOffSequence" THEN TakeOffSequence ELSE LandingSequence

\* A call frame: the function, its next statement, the switch it returns to,
\* and how many pin writes and how many ms the iteration had seen at the call.
NoFrame == [fn |-> "none", at |-> 0, ret |-> "none", base |-> 0, t0 |-> 0]

Enter(fn, from, h) ==
    [fn |-> fn, at |-> 1, ret |-> from, base |-> Len(h.writes), t0 |-> h.now]

---------------------------------------------------------------------------
(* Command dispatcher, RosStationCommunication.cpp *)

\* switch (command) of the ROS client: the line printed, the function called
\* (or the assignment made), the byte written back.
RosSwitch(c) ==
    CASE c = "a" -> [line |-> "ROS: Extend Plate",       call |-> "ExtendPlate",     ack |-> "A"]
      [] c = "b" -> [line |-> "ROS: Retract Plate",      call |-> "RetractPlate",    ack |-> "B"]
      [] c = "c" -> [line |-> "ROS: Open Door",          call |-> "OpenDoor",        ack |-> "C"]
      [] c = "d" -> [line |-> "ROS: Close Door",         call |-> "CloseDoor",       ack |-> "D"]
      [] c = "e" -> [line |-> "ROS: Wireless Power On",  call |-> "PowerOn",         ack |-> "E"]
      [] c = "f" -> [line |-> "ROS: Wireless Power Off", call |-> "PowerOff",        ack |-> "F"]
      [] c = "z" -> [line |-> "ROS: Take Off Sequence",  call |-> "TakeOffSequence", ack |-> "Z"]
      [] c = "x" -> [line |-> "ROS: Landing Sequence",   call |-> "LandingSequence", ack |-> "X"]
      [] c = "g" -> [line |-> "ROS: Stop All",           call |-> "StopAllMotors",   ack |-> "G"]
      [] OTHER   -> [line |-> "Unknown ROS command",     call |-> "none",            ack |-> "none"]

\* (mutant) the web cases acknowledge on the ROS server like the ROS cases.
WebSwitch_Acknowledges(c) ==
    CASE c = "A" -> [line |-> "Web: Extend Plate",       call |-> "ExtendPlate",     ack |-> "A"]
      [] c = "D" -> [line |-> "Web: Retract Plate",      call |-> "RetractPlate",    ack |-> "D"]
      [] c = "B" -> [line |-> "Web: Open Door",          call |-> "OpenDoor",        ack |-> "B"]
      [] c = "E" -> [line |-> "Web: Close Door",         call |-> "CloseDoor",       ack |-> "E"]
      [] c = "C" -> [line |-> "Web: Wireless Power On",  call |-> "PowerOn",         ack |-> "C"]
      [] c = "F" -> [line |-> "Web: Wireless Power Off", call |-> "PowerOff",        ack |-> "F"]
      [] c = "G" -> [line |-> "Web: Take Off Sequence",  call |-> "TakeOffSequence", ack |-> "G"]
      [] c = "H" -> [line |-> "Web: Landing Sequence",   call |-> "LandingSequence", ack |-> "H"]
      [] c = "I" -> [line |-> "Web: Stop All",           call |-> "StopAllMotors",   ack |-> "I"]
      [] OTHER   -> [line |-> "Unknown Web command",     call |-> "none",            ack |-> "none"]

\* (mutant) case 'F' of the web client leaves the wireless power as it is.
WebSwitch_PowerOffIgnored(c) ==
    CASE c = "A" -> [line |-> "Web: Extend Plate",       call |-> "ExtendPlate",     ack |-> "none"]
      [] c = "D" -> [line |-> "Web: Retract Plate",      call |-> "RetractPlate",    ack |-> "none"]
      [] c = "B" -> [line |-> "Web: Open Door",          call |-> "OpenDoor",        ack |-> "none"]
      [] c = "E" -> [line |-> "Web: Close Door",         call |-> "CloseDoor",       ack |-> "none"]
      [] c = "C" -> [line |-> "Web: Wireless Power On",  call |-> "PowerOn",         ack |-> "none"]
      [] c = "F" -> [line |-> "Web: Wireless Power Off", call |-> "none",            ack |-> "none"]
      [] c = "G" -> [line |-> "Web: Take Off Sequence",  call |-> "TakeOffSequence", ack |-> "none"]
      [] c = "H" -> [line |-> "Web: Landing Sequence",   call |-> "LandingSequence", ack |-> "none"]
      [] c = "I" -> [line |-> "Web: Stop All",           call |-> "StopAllMotors",   ack |-> "none"]
      [] OTHER   -> [line |-> "Unknown Web command",     call |-> "none",            ack |-> "none"]

\* switch (command) of the web client: no case writes anything back.
WebSwitch(c) ==
    CASE c = "A" -> [line |-> "Web: Extend Plate",       call |-> "ExtendPlate",     ack |-> "none"]
      [] c = "D" -> [line |-> "Web: Retract Plate",      call |-> "RetractPlate",    ack |-> "none"]
      [] c = "B" -> [line |-> "Web: Open Door",          call |-> "OpenDoor",        ack |-> "none"]
      [] c = "E" -> [line |-> "Web: Close Door",         call |-> "CloseDoor",       ack |-> "none"]
      [] c = "C" -> [line |-> "Web: Wireless Power On",  call |-> "PowerOn",         ack |-> "none"]
      [] c = "F" -> [line |-> "Web: Wireless Power Off", call |-> "PowerOff",        ack |-> "none"]
      [] c = "G" -> [line |-> "Web: Take Off Sequence",  call |-> "TakeOffSequence", ack |-> "none"]
      [] c = "H" -> [line |-> "Web: Landing Sequence",   call |-> "LandingSequence", ack |-> "none"]
      [] c = "I" -> [line |-> "Web: Stop All",           call |-> "StopAllMotors",   ack |-> "none"]
      [] OTHER   -> [line |-> "Unknown Web command",     call |-> "none",            ack |-> "none"]

\* (mutant) stopping the motors also switches the wireless power off.
SetPower_StopTurnsOff(call, w) ==
    IF call = "PowerOn" THEN 0
    ELSE IF call \in {"PowerOff", "StopAllMotors"} THEN 1 ELSE w

\* wirelessPowerState = 0 / wirelessPowerState = 1 of the power cases.
SetPower(call, w) ==
    IF call = "PowerOn" THEN 0 ELSE IF call = "PowerOff" THEN 1 ELSE w

\* server.write(byte) of a case; "none" when the case writes nothing.
Write(tx, b) == IF b = "none" THEN tx ELSE Append(tx, b)

\* client.flush() on a first connection: "Clear transmission buffers" (line
\* 79), the bytes going out; the bytes received and not yet read stay.
Flushed(q) == q

\* if (ros_client || web_client) { if (!alreadyConnected) ...: the iteration
\* takes the connection it sees for a new one.
\* (mutant) every iteration with a client counts as a first connection.
FirstConnection_Always(already, r, w) == r \/ w

FirstConnection(already, r, w) == (r \/ w) /\ ~already

\* (mutant) read() hands out the oldest byte and drops the others.
Read_DropsRest(q) == [byte |-> Head(q), rest |-> <<>>]

\* client.read(): the oldest unread byte is taken out of the buffer.
Read(q) == [byte |-> Head(q), rest |-> Tail(q)]

\* (mutant) the relay is switched on but never driven back off.
DriveRelay_NeverOff(w, h) ==
    IF w = 0 THEN EnableWirelessPower(h) ELSE h

\* The control of wireless power at the bottom of loop().
DriveRelay(w, h) ==
    IF w = 0 THEN EnableWirelessPower(h) ELSE DisableWirelessPower(h)

\* (mutant) setup() switches the relay on instead of off.
RosSetup_RelayOn == EnableWirelessPower(StopAllMotors(
                [pins |-> [p \in RosOutputPins |-> LOW], writes |-> <<>>, now |-> 0]))

\* setup(): StopAllMotors(); DisableWirelessPower(); on pins that power up LOW.
RosSetup == DisableWirelessPower(StopAllMotors(
                [pins |-> [p \in RosOutputPins |-> LOW], writes |-> <<>>, now |-> 0]))

---------------------------------------------------------------------------
(* loop(), RosStationCommunication.cpp *)

\* The thread is blocked in a delay() of a sequence.
InDelay ==
    /\ pc = "seq"
    /\ frame.at <= Len(Body(frame.fn))
    /\ Body(frame.fn)[frame.at].call = "delay"

\* Peers connect, disconnect and send between two iterations and while the
\* thread is blocked in delay().  (The rest of an iteration takes no time: a
\* byte arriving inside it is read as if it had arrived just before or just
\* after it.)
EnvPoint == pc = "begin" \/ InDelay

Pending == Len(rosRx) + Len(webRx) + Len(rx)

\* Lines 73-84: poll both servers; on the first connection flush and log.
LoopBegin ==
    /\ variant = "dual" /\ pc = "begin"
    /\ ros_client' = rosPeer
    /\ web_client' = webPeer
    /\ IF rosPeer \/ webPeer
       THEN /\ pc' = "ros"
            /\ IF FirstConnection(alreadyConnected, rosPeer, webPeer)
               THEN /\ rosRx' = Flushed(rosRx)
                    /\ webRx' = Flushed(webRx)
                    /\ serial' = Append(serial, "New client connected")
                    /\ alreadyConnected' = TRUE
               ELSE UNCHANGED <<rosRx, webRx, serial, alreadyConnected>>
       ELSE /\ pc' = "relay"
            /\ UNCHANGED <<rosRx, webRx, serial, alreadyConnected>>
    /\ UNCHANGED <<variant, hw, wirelessPowerState, rosPeer, webPeer, rosCommand,
                   webCommand, rosTx, webTx, frame, stationVars>>

\* Lines 87-139: read one byte from the ROS client and dispatch it.
RosDispatch ==
    /\ variant = "dual" /\ pc = "ros"
    /\ IF ros_client /\ Len(rosRx) > 0
       THEN LET c == Read(rosRx).byte
                row == RosSwitch(c)
            IN /\ rosCommand' = c
               /\ rosRx' = Read(rosRx).rest
               /\ serial' = Append(serial, row.line)
               /\ IF row.call \in Sequences
                  THEN /\ pc' = "seq"
                       /\ frame' = Enter(row.call, "ros", hw)
                       /\ UNCHANGED <<hw, wirelessPowerState, rosTx>>
                  ELSE /\ pc' = "web"
                       /\ hw' = Call(row.call, hw)
                       /\ wirelessPowerState' = SetPower(row.call, wirelessPowerState)
                       /\ rosTx' = Write(rosTx, row.ack)
                       /\ UNCHANGED frame
       ELSE /\ pc' = "web"
            /\ UNCHANGED <<rosCommand, rosRx, serial, hw, wirelessPowerState, rosTx, frame>>
    /\ UNCHANGED <<variant, alreadyConnected, rosPeer, webPeer, webRx, ros_client,
                   web_client, webCommand, webTx, stationVars>>

\* Lines 142-185: read one byte from the web client and dispatch it.
WebDispatch ==
    /\ variant = "dual" /\ pc = "web"
    /\ IF web_client /\ Len(webRx) > 0
       THEN LET c == Read(webRx).byte
                row == WebSwitch(c)
            IN /\ webCommand' = c
               /\ webRx' = Read(webRx).rest
               /\ serial' = Append(serial, row.line)
               /\ IF row.call \in Sequences
                  THEN /\ pc' = "seq"
                       /\ frame' = Enter(row.call, "web", hw)
                       /\ UNCHANGED <<hw, wirelessPowerState, webTx>>
                  ELSE /\ pc' = "relay"
                       /\ hw' = Call(row.call, hw)
                       /\ wirelessPowerState' = SetPower(row.call, wirelessPowerState)
                       /\ webTx' = Write(webTx, row.ack)
                       /\ UNCHANGED frame
       ELSE /\ pc' = "relay"
            /\ UNCHANGED <<webCommand, webRx, serial, hw, wirelessPowerState, webTx, frame>>
    /\ UNCHANGED <<variant, alreadyConnected, rosPeer, webPeer, rosRx, ros_client,
                   web_client, rosCommand, rosTx, stationVars>>

\* The next statement of the running sequence is a call of a primitive.
SeqCall ==
    /\ variant = "dual" /\ pc = "seq"
    /\ frame.at <= Len(Body(frame.fn))
    /\ Body(frame.fn)[frame.at].call # "delay"
    /\ hw' = Call(Body(frame.fn)[frame.at].call, hw)
    /\ frame' = [frame EXCEPT !.at = @ + 1]
    /\ UNCHANGED <<variant, pc, serial, wirelessPowerState, alreadyConnected, rosPeer,
                   webPeer, rosRx, webRx, ros_client, web_client, rosCommand,
                   webCommand, rosTx, webTx, stationVars>>

\* The next statement of the running sequence is a delay(): it elapses.
SeqDelay ==
    /\ variant = "dual" /\ InDelay
    /\ hw' = delay(hw, Body(frame.fn)[frame.at].ms)
    /\ frame' = [frame EXCEPT !.at = @ + 1]
    /\ UNCHANGED <<variant, pc, serial, wirelessPowerState, alreadyConnected, rosPeer,
                   webPeer, rosRx, webRx, ros_client, web_client, rosCommand,
                   webCommand, rosTx, webTx, stationVars>>

\* The sequence returns to its case, which (ROS only) acknowledges and breaks.
SeqReturn ==
    /\ variant = "dual" /\ pc = "seq"
    /\ frame.at > Len(Body(frame.fn))
    /\ frame' = NoFrame
    /\ IF frame.ret = "ros"
       THEN /\ rosTx' = Write(rosTx, RosSwitch(rosCommand).ack)
            /\ webTx' = webTx
            /\ pc' = "web"
       ELSE /\ webTx' = Write(webTx, WebSwitch(webCommand).ack)
            /\ rosTx' = rosTx
            /\ pc' = "relay"
    /\ UNCHANGED <<variant, hw, serial, wirelessPowerState, alreadyConnected, rosPeer,
                   webPeer, rosRx, webRx, ros_client, web_client, rosCommand,
                   webCommand, stationVars>>

\* Lines 188-193: re-drive the relay pin from wirelessPowerState.
RelayDrive ==
    /\ variant = "dual" /\ pc = "relay"
    /\ hw' = DriveRelay(wirelessPowerState, hw)
    /\ pc' = "end"
    /\ UNCHANGED <<variant, serial, dualVars, stationVars>>

\* loop() has returned and is called again: its locals are gone, and the
\* record of what the iteration wrote starts afresh.  (The two snapshot
\* locals of Station.cpp, and the two client locals of the dual-channel
\* loop, keep their last values until the next iteration overwrites them:
\* nothing reads them in between.  Until then ros_client and web_client say
\* whether a client was connected in the previous iteration.)
LoopReturn ==
    /\ pc = "end"
    /\ pc' = "begin"
    /\ hw' = [hw EXCEPT !.writes = <<>>, !.now = 0]
    /\ serial' = <<>>
    /\ rosCommand' = "none" /\ webCommand' = "none"
    /\ rosTx' = <<>> /\ webTx' = <<>>
    /\ client' = FALSE /\ command' = "none"
    /\ UNCHANGED <<variant, wirelessPowerState, alreadyConnected, rosPeer, webPeer,
                   rosRx, webRx, frame, peer, rx, photo, isDoorClosed, isPlateIn,
                   ros_client, web_client>>

---------------------------------------------------------------------------
(* The peers of the dual-channel station *)

RosConnect ==
    /\ variant = "dual" /\ EnvPoint /\ ~rosPeer
    /\ rosPeer' = TRUE
    /\ UNCHANGED <<variant, pc, hw, serial, wirelessPowerState, alreadyConnected, webPeer,
                   rosRx, webRx, ros_client, web_client, rosCommand, webCommand, rosTx,
                   webTx, frame, stationVars>>

RosDisconnect ==
    /\ variant = "dual" /\ EnvPoint /\ rosPeer /\ rosRx = <<>>
    /\ rosPeer' = FALSE
    /\ UNCHANGED <<variant, pc, hw, serial, wirelessPowerState, alreadyConnected, webPeer,
                   rosRx, webRx, ros_client, web_client, rosCommand, webCommand, rosTx,
                   webTx, frame, stationVars>>

RosSend ==
    /\ variant = "dual" /\ EnvPoint /\ rosPeer /\ Pending < MaxPending
    /\ \E b \in RosBytes : rosRx' = Append(rosRx, b)
    /\ UNCHANGED <<variant, pc, hw, serial, wirelessPowerState, alreadyConnected, rosPeer,
                   webPeer, webRx, ros_client, web_client, rosCommand, webCommand, rosTx,
                   webTx, frame, stationVars>>

WebConnect ==
    /\ variant = "dual" /\ EnvPoint /\ ~webPeer
    /\ webPeer' = TRUE
    /\ UNCHANGED <<variant, pc, hw, serial, wirelessPowerState, alreadyConnected, rosPeer,
                   rosRx, webRx, ros_client, web_client, rosCommand, webCommand, rosTx,
                   webTx, frame, stationVars>>

WebDisconnect ==
    /\ variant = "dual" /\ EnvPoint /\ webPeer /\ webRx = <<>>
    /\ webPeer' = FALSE
    /\ UNCHANGED <<variant, pc, hw, serial, wirelessPowerState, alreadyConnected, rosPeer,
                   rosRx, webRx, ros_client, web_client, rosCommand, webCommand, rosTx,
                   webTx, frame, stationVars>>

WebSend ==
    /\ variant = "dual" /\ EnvPoint /\ webPeer /\ Pending < MaxPending
    /\ \E b \in WebBytes : webRx' = Append(webRx, b)
    /\ UNCHANGED <<variant, pc, hw, serial, wirelessPowerState, alreadyConnected, rosPeer,
                   webPeer, rosRx, ros_client, web_client, rosCommand, webCommand, rosTx,
                   webTx, frame, stationVars>>

---------------------------------------------------------------------------
(* Actuation primitives, Station.cpp *)

Station_StopAllMotors(h) ==
    digitalWrite(digitalWrite(h, DOOR_ENABLE_PIN, HIGH), PLATE_ENABLE_PIN, HIGH)

Station_CloseDoor(h) ==
    digitalWrite(digitalWrite(h, DOOR_DIRECTION_PIN, HIGH), DOOR_ENABLE_PIN, LOW)

Station_OpenDoor(h) ==
    digitalWrite(digitalWrite(h, DOOR_DIRECTION_PIN, LOW), DOOR_ENABLE_PIN, LOW)

Station_RetractPlate(h) ==
    digitalWrite(digitalWrite(h, PLATE_DIRECTION_PIN, HIGH), PLATE_ENABLE_PIN, LOW)

Station_ExtendPlate(h) ==
    digitalWrite(digitalWrite(h, PLATE_DIRECTION_PIN, LOW), PLATE_ENABLE_PIN, LOW)

\* (mutant) the snapshot is taken from the values kept from the last command.
ReadsLow_Cached(pin) ==
    IF pin = DOOR_PHOTO_PIN THEN isDoorClosed ELSE isPlateIn

\* digitalRead(pin) == LOW
ReadsLow(pin) == photo[pin] = LOW

---------------------------------------------------------------------------
(* Command dispatcher, Station.cpp *)

\* The Serial.println of each case.
StationLine(c) ==
    CASE c = "A" -> "Extend Plate"
      [] c = "D" -> "Retract Plate"
      [] c = "B" -> "Open Door"
      [] c = "E" -> "Close Door"
      [] c = "G" -> "Take Off Sequence"
      [] c = "H" -> "Landing Sequence"
      [] c = "I" -> "Stop All"
      [] OTHER   -> "Unknown command"

\* (mutant) 'E' closes the door without a guard.
CaseE_Unguarded(doorClosed, plateIn, h) ==
    Station_CloseDoor(h)

\* (mutant) the inner guard of 'G' tests isPlateIn again.
CaseG_InnerGuardPlateIn(doorClosed, plateIn, h) ==
    IF plateIn
    THEN LET opened == Station_OpenDoor(h)
         IN IF plateIn THEN Station_ExtendPlate(opened) ELSE opened
    ELSE h

CaseA(doorClosed, plateIn, h) ==
    IF doorClosed THEN Station_ExtendPlate(h) ELSE h

CaseE(doorClosed, plateIn, h) ==
    IF plateIn THEN Station_CloseDoor(h) ELSE h

CaseG(doorClosed, plateIn, h) ==
    IF plateIn
    THEN LET opened == Station_OpenDoor(h)
         IN IF doorClosed THEN Station_ExtendPlate(opened) ELSE opened
    ELSE h

\* (mutant) 'H' closes the door whether or not the plate is in.
CaseH_CloseUnguarded(doorClosed, plateIn, h) ==
    LET closing == Station_CloseDoor(Station_RetractPlate(h))
    IN IF plateIn /\ doorClosed THEN Station_StopAllMotors(closing) ELSE closing

\* (mutant) 'H' stops the motors as soon as the door was told to close.
CaseH_StopUnguarded(doorClosed, plateIn, h) ==
    LET retracting == Station_RetractPlate(h)
    IN IF plateIn
       THEN Station_StopAllMotors(Station_CloseDoor(retracting))
       ELSE retracting

CaseH(doorClosed, plateIn, h) ==
    LET retracting == Station_RetractPlate(h)
    IN IF plateIn
       THEN LET closing == Station_CloseDoor(retracting)
            IN IF doorClosed THEN Station_StopAllMotors(closing) ELSE closing
       ELSE retracting

\* (mutant) the default label sits above case 'I' and falls through into it.
StationSwitch_DefaultFallsThrough(c, doorClosed, plateIn, h) ==
    CASE c = "A" -> CaseA(doorClosed, plateIn, h)
      [] c = "D" -> Station_RetractPlate(h)
      [] c = "B" -> Station_OpenDoor(h)
      [] c = "E" -> CaseE(doorClosed, plateIn, h)
      [] c = "G" -> CaseG(doorClosed, plateIn, h)
      [] c = "H" -> CaseH(doorClosed, plateIn, h)
      [] OTHER   -> Station_StopAllMotors(h)

\* switch (command): the pin writes of each case, given the sensor snapshot.
StationSwitch(c, doorClosed, plateIn, h) ==
    CASE c = "A" -> CaseA(doorClosed, plateIn, h)
      [] c = "D" -> Station_RetractPlate(h)
      [] c = "B" -> Station_OpenDoor(h)
      [] c = "E" -> CaseE(doorClosed, plateIn, h)
      [] c = "G" -> CaseG(doorClosed, plateIn, h)
      [] c = "H" -> CaseH(doorClosed, plateIn, h)
      [] c = "I" -> Station_StopAllMotors(h)
      [] OTHER   -> h

\* setup(): StopAllMotors(); on pins that power up LOW.
StationSetup == Station_StopAllMotors(
                    [pins |-> [p \in StationOutputPins |-> LOW], writes |-> <<>>, now |-> 0])

\* loop() of Station.cpp: one whole iteration.
StationLoop ==
    /\ variant = "single" /\ pc = "begin"
    /\ client' = peer
    /\ IF peer /\ Len(rx) > 0
       THEN LET c == Head(rx)
                doorClosed == ReadsLow(DOOR_PHOTO_PIN)
                plateIn == ReadsLow(PLATE_PHOTO_PIN)
            IN /\ command' = c
               /\ rx' = Tail(rx)
               /\ isDoorClosed' = doorClosed
               /\ isPlateIn' = plateIn
               /\ serial' = Append(serial, StationLine(c))
               /\ hw' = StationSwitch(c, doorClosed, plateIn, hw)
       ELSE UNCHANGED <<command, rx, isDoorClosed, isPlateIn, serial, hw>>
    /\ pc' = "end"
    /\ UNCHANGED <<variant, peer, photo, dualVars>>

---------------------------------------------------------------------------
(* The peer and the sensors of the single-channel station *)

PeerConnect ==
    /\ variant = "single" /\ pc = "begin" /\ ~peer
    /\ peer' = TRUE
    /\ UNCHANGED <<variant, pc, hw, serial, dualVars, rx, photo, client, command,
                   isDoorClosed, isPlateIn>>

PeerDisconnect ==
    /\ variant = "single" /\ pc = "begin" /\ peer /\ rx = <<>>
    /\ peer' = FALSE
    /\ UNCHANGED <<variant, pc, hw, serial, dualVars, rx, photo, client, command,
                   isDoorClosed, isPlateIn>>

PeerSend ==
    /\ variant = "single" /\ pc = "begin" /\ peer /\ Pending < MaxPending
    /\ \E b \in StationBytes : rx' = Append(rx, b)
    /\ UNCHANGED <<variant, pc, hw, serial, dualVars, peer, photo, client, command,
                   isDoorClosed, isPlateIn>>

\* A photo sensor changes level: the mechanism moved, or the beam was cut.
SensorChange ==
    /\ variant = "single" /\ pc = "begin"
    /\ \E pin \in PhotoPins, level \in Levels :
          /\ photo[pin] # level
          /\ photo' = [photo EXCEPT ![pin] = level]
    /\ UNCHANGED <<variant, pc, hw, serial, dualVars, peer, rx, client, command,
                   isDoorClosed, isPlateIn>>

---------------------------------------------------------------------------
(* Specification *)

Init ==
    /\ variant \in {"dual", "single"}
    /\ pc = "begin"
    /\ frame = NoFrame
    /\ hw = [(IF variant = "dual" THEN RosSetup ELSE StationSetup) EXCEPT !.writes = <<>>]
    /\ serial = <<>>
    /\ wirelessPowerState = 1
    /\ alreadyConnected = FALSE
    /\ rosPeer = FALSE /\ webPeer = FALSE
    /\ rosRx = <<>> /\ webRx = <<>>
    /\ ros_client = FALSE /\ web_client = FALSE
    /\ rosCommand = "none" /\ webCommand = "none"
    /\ rosTx = <<>> /\ webTx = <<>>
    /\ peer = FALSE /\ rx = <<>>
    /\ photo \in IF variant = "single" THEN [PhotoPins -> Levels]
                                        ELSE {[p \in PhotoPins |-> HIGH]}
    /\ client = FALSE /\ command = "none"
    /\ isDoorClosed = FALSE /\ isPlateIn = FALSE

DualNext ==
    \/ LoopBegin \/ RosDispatch \/ WebDispatch
    \/ SeqCall \/ SeqDelay \/ SeqReturn
    \/ RelayDrive \/ LoopReturn
    \/ RosConnect \/ RosDisconnect \/ RosSend
    \/ WebConnect \/ WebDisconnect \/ WebSend

StationNext ==
    \/ StationLoop \/ LoopReturn
    \/ PeerConnect \/ PeerDisconnect \/ PeerSend \/ SensorChange

Next == DualNext \/ StationNext

\* A board with either sketch.
Spec == Init /\ [][Next]_vars

\* A board with RosStationCommunication.cpp.
InitDual == Init /\ variant = "dual"
SpecDual == InitDual /\ [][DualNext]_vars

\* A board with Station.cpp.
InitStation == Init /\ variant = "single"
SpecStation == InitStation /\ [][StationNext]_vars

TypeOK ==
    /\ variant \in {"dual", "single"}
    /\ pc \in {"begin", "ros", "web", "seq", "relay", "end"}
    /\ wirelessPowerState \in {0, 1}
    /\ \A p \in DOMAIN hw.pins : hw.pins[p] \in Levels
    /\ Pending <= MaxPending

---------------------------------------------------------------------------
(* Vocabulary of the properties *)

\* The pin and level of each write of a trace, in order.
PinLevels(w) == [i \in 1..Len(w) |-> <<w[i].pin, w[i].level>>]

\* The pin writes the design gives each primitive and sequence.
ExtendWrites  == << <<PLATE_DIRECTION_PIN, LOW>>,  <<PLATE_ENABLE_PIN, LOW>> >>
RetractWrites == << <<PLATE_DIRECTION_PIN, HIGH>>, <<PLATE_ENABLE_PIN, LOW>> >>
OpenWrites    == << <<DOOR_DIRECTION_PIN, LOW>>,   <<DOOR_ENABLE_PIN, LOW>> >>
CloseWrites   == << <<DOOR_DIRECTION_PIN, HIGH>>,  <<DOOR_ENABLE_PIN, LOW>> >>
StopWrites    == << <<DOOR_ENABLE_PIN, HIGH>>,     <<PLATE_ENABLE_PIN, HIGH>> >>

\* The iteration of the dual-channel station is over.
DualEnd == variant = "dual" /\ pc = "end"

\* The last pin write of the iteration.
LastWrite == hw.writes[Len(hw.writes)]

---------------------------------------------------------------------------
(* C1: dual-channel station: at the end of every iteration of loop() the    *)
(* relay pin is HIGH exactly when wirelessPowerState is 0 (on), and the     *)
(* iteration has written the relay pin (as its last pin write), whether or  *)
(* not a client was connected or a byte arrived.                            *)
C1_RelayFollowsState ==
    DualEnd =>
        /\ (hw.pins[WPT_RELAY_PIN] = HIGH) <=> (wirelessPowerState = 0)
        /\ Len(hw.writes) > 0
        /\ LastWrite.pin = WPT_RELAY_PIN
        /\ (LastWrite.level = HIGH) <=> (wirelessPowerState = 0)

\* The relay is on at the end of an iteration in which no client was connected.
C1_Witness ==
    /\ DualEnd
    /\ ~ros_client /\ ~web_client
    /\ wirelessPowerState = 0
    /\ hw.pins[WPT_RELAY_PIN] = HIGH
    /\ Len(hw.writes) = 1

---------------------------------------------------------------------------
\* A step of loop() that reads a byte without a case from a channel.
UnknownRosStep ==
    /\ variant = "dual" /\ pc = "ros" /\ pc' # pc
    /\ ros_client /\ Len(rosRx) > 0 /\ Head(rosRx) \notin RosAlphabet

UnknownWebStep ==
    /\ variant = "dual" /\ pc = "web" /\ pc' # pc
    /\ web_client /\ Len(webRx) > 0 /\ Head(webRx) \notin WebAlphabet

UnknownStationStep ==
    /\ variant = "single" /\ pc = "begin" /\ pc' = "end"
    /\ peer /\ Len(rx) > 0 /\ Head(rx) \notin StationAlphabet

(* C2: in both variants, dispatching a byte outside the channel's           *)
(* recognized alphabet leaves every output pin (direction, enable, relay)   *)
(* and wirelessPowerState unchanged, writes no pin, writes nothing to       *)
(* either server, and prints exactly one "unknown command" line.            *)
C2_UnknownByteIgnored ==
    [][ /\ UnknownRosStep =>
             /\ hw' = hw /\ wirelessPowerState' = wirelessPowerState
             /\ rosTx' = rosTx /\ webTx' = webTx
             /\ serial' = Append(serial, "Unknown ROS command")
        /\ UnknownWebStep =>
             /\ hw' = hw /\ wirelessPowerState' = wirelessPowerState
             /\ rosTx' = rosTx /\ webTx' = webTx
             /\ serial' = Append(serial, "Unknown Web command")
        /\ UnknownStationStep =>
             /\ hw' = hw
             /\ serial' = Append(serial, "Unknown command") ]_vars

\* The web switch has just ignored the byte 'a' (a ROS command letter) while
\* the relay was on and the door motor was running.
C2_Witness ==
    /\ variant = "dual" /\ pc = "relay"
    /\ webCommand = "a"
    /\ hw.writes = <<>>
    /\ serial = <<"Unknown Web command">>
    /\ rosTx = <<>> /\ webTx = <<>>
    /\ wirelessPowerState = 0 /\ hw.pins[WPT_RELAY_PIN] = HIGH
    /\ hw.pins[DOOR_ENABLE_PIN] = LOW

---------------------------------------------------------------------------
\* The action the design's table gives each channel-A and channel-B byte.
TableA(b) ==
    CASE b = "a" -> "ExtendPlate"     [] b = "b" -> "RetractPlate"
      [] b = "c" -> "OpenDoor"        [] b = "d" -> "CloseDoor"
      [] b = "e" -> "RelayOn"         [] b = "f" -> "RelayOff"
      [] b = "z" -> "TakeOff"         [] b = "x" -> "Landing"
      [] b = "g" -> "StopAllMotors"   [] OTHER   -> "nothing"

TableB(b) ==
    CASE b = "A" -> "ExtendPlate"     [] b = "D" -> "RetractPlate"
      [] b = "B" -> "OpenDoor"        [] b = "E" -> "CloseDoor"
      [] b = "C" -> "RelayOn"         [] b = "F" -> "RelayOff"
      [] b = "G" -> "TakeOff"         [] b = "H" -> "Landing"
      [] b = "I" -> "StopAllMotors"   [] OTHER   -> "nothing"

\* The pin writes of a table action, in order.
RowWrites(action) ==
    CASE action = "ExtendPlate"   -> ExtendWrites
      [] action = "RetractPlate"  -> RetractWrites
      [] action = "OpenDoor"      -> OpenWrites
      [] action = "CloseDoor"     -> CloseWrites
      [] action = "TakeOff"       -> OpenWrites \o ExtendWrites
      [] action = "Landing"       -> RetractWrites \o CloseWrites
      [] action = "StopAllMotors" -> StopWrites
      [] OTHER                    -> <<>>

\* wirelessPowerState after a table action that sets it.
RowPower(action, w) ==
    (action = "RelayOn" => w = 0) /\ (action = "RelayOff" => w = 1)

\* Every pin written in this iteration has the level of its last write.
PinsAsWritten ==
    \A i \in 1..Len(hw.writes) :
        (\A j \in (i+1)..Len(hw.writes) : hw.writes[j].pin # hw.writes[i].pin)
            => hw.pins[hw.writes[i].pin] = hw.writes[i].level

(* C3: dual-channel station: the pin writes of an iteration, up to the end  *)
(* of the ROS switch, are exactly those of the table row of the byte read   *)
(* from channel A (none for no byte), and up to the end of the web switch   *)
(* exactly those followed by the writes of the row of the byte read from    *)
(* channel B; the relay rows set wirelessPowerState to 0 (on) or 1 (off);   *)
(* the pins hold the levels written.  Both channels use the same rows.      *)
C3_DispatchFollowsTable ==
    variant = "dual" =>
        /\ pc = "web" =>
             /\ PinLevels(hw.writes) = RowWrites(TableA(rosCommand))
             /\ RowPower(TableA(rosCommand), wirelessPowerState)
        /\ pc = "relay" =>
             /\ PinLevels(hw.writes) =
                    RowWrites(TableA(rosCommand)) \o RowWrites(TableB(webCommand))
             /\ RowPower(TableB(webCommand), wirelessPowerState)
        /\ pc \in {"web", "relay"} => PinsAsWritten

\* Channel A carried 'z' (take-off) and channel B 'D' (retract plate) in the
\* same iteration: six pin writes, the plate ends retracting.
C3_Witness ==
    /\ variant = "dual" /\ pc = "relay"
    /\ rosCommand = "z" /\ webCommand = "D"
    /\ Len(hw.writes) = 6
    /\ hw.pins[PLATE_DIRECTION_PIN] = HIGH /\ hw.pins[PLATE_ENABLE_PIN] = LOW
    /\ hw.pins[DOOR_DIRECTION_PIN] = LOW /\ hw.pins[DOOR_ENABLE_PIN] = LOW

---------------------------------------------------------------------------
\* The uppercase equivalent of a channel-A command letter.
UpperCase(b) ==
    CASE b = "a" -> "A" [] b = "b" -> "B" [] b = "c" -> "C" [] b = "d" -> "D"
      [] b = "e" -> "E" [] b = "f" -> "F" [] b = "z" -> "Z" [] b = "x" -> "X"
      [] b = "g" -> "G"

(* C4: dual-channel station: once the ROS switch of an iteration is done,   *)
(* what the iteration has written to channel A is exactly the uppercase     *)
(* equivalent of the recognized byte it read from channel A (nothing for an *)
(* unrecognized byte or no byte), whatever byte it reads from channel B;    *)
(* nothing is ever written to channel B.                                    *)
C4_AckOnChannelAOnly ==
    variant = "dual" =>
        /\ webTx = <<>>
        /\ (pc \in {"web", "relay", "end"} \/ (pc = "seq" /\ frame.ret = "web")) =>
              rosTx = IF rosCommand \in RosAlphabet THEN <<UpperCase(rosCommand)>>
                                                     ELSE <<>>

\* 'a' on channel A and 'A' on channel B in one iteration: one 'A' written
\* back on channel A, nothing on channel B.
C4_Witness ==
    /\ DualEnd
    /\ rosCommand = "a" /\ webCommand = "A"
    /\ rosTx = <<"A">> /\ webTx = <<>>

---------------------------------------------------------------------------
\* The pin writes of the running sequence, and the ms since it was called.
SeqWrites == SubSeq(hw.writes, frame.base + 1, Len(hw.writes))
SeqElapsed == hw.now - frame.t0

\* The running sequence has executed its last statement and is about to return.
SeqDone == frame.at > Len(Body(frame.fn))

InTakeOff == variant = "dual" /\ pc = "seq" /\ frame.fn = "TakeOffSequence"
InLanding == variant = "dual" /\ pc = "seq" /\ frame.fn = "LandingSequence"

(* C5: at every point of TakeOffSequence its pin writes so far are a prefix *)
(* of OpenDoor's two writes followed by ExtendPlate's two; OpenDoor's are   *)
(* made at the call, ExtendPlate's no earlier than 25000 ms after them, and *)
(* the function returns with all four made and no earlier than 45000 ms     *)
(* after ExtendPlate.                                                       *)
C5_TakeOffOrderAndTiming ==
    InTakeOff =>
        LET w == SeqWrites
        IN /\ Len(w) \in {0, 2, 4}
           /\ PinLevels(w) = SubSeq(OpenWrites \o ExtendWrites, 1, Len(w))
           /\ Len(w) >= 2 => w[1].at = frame.t0 /\ w[2].at = frame.t0
           /\ Len(w) = 4 => /\ w[3].at >= w[2].at + 25000
                            /\ w[4].at >= w[2].at + 25000
           /\ SeqDone => Len(w) = 4 /\ hw.now >= w[4].at + 45000

\* TakeOffSequence, called from the web switch after the ROS switch wrote
\* pins in the same iteration, is about to return.
C5_Witness ==
    /\ InTakeOff /\ SeqDone
    /\ frame.ret = "web" /\ frame.base = 2
    /\ Len(SeqWrites) = 4
    /\ SeqElapsed = 70000

(* C6: at every point of LandingSequence its pin writes so far are a prefix *)
(* of RetractPlate's two writes followed by CloseDoor's two; RetractPlate's *)
(* are made at the call, CloseDoor's no earlier than 45000 ms after them,   *)
(* and the function returns with all four made, no earlier than 25000 ms    *)
(* after CloseDoor: 70000 ms after the call.                                *)
C6_LandingOrderAndTiming ==
    InLanding =>
        LET w == SeqWrites
        IN /\ Len(w) \in {0, 2, 4}
           /\ PinLevels(w) = SubSeq(RetractWrites \o CloseWrites, 1, Len(w))
           /\ Len(w) >= 2 => w[1].at = frame.t0 /\ w[2].at = frame.t0
           /\ Len(w) = 4 => /\ w[3].at >= w[2].at + 45000
                            /\ w[4].at >= w[2].at + 45000
           /\ SeqDone => /\ Len(w) = 4
                         /\ hw.now >= w[4].at + 25000
                         /\ SeqElapsed = 70000

\* LandingSequence, called from the ROS switch, is about to return.
C6_Witness ==
    /\ InLanding /\ SeqDone
    /\ frame.ret = "ros"
    /\ Len(SeqWrites) = 4
    /\ SeqWrites[3].at = 45000
    /\ SeqElapsed = 70000

---------------------------------------------------------------------------
\* A step of loop() whose case calls StopAllMotors() and nothing else.
StopRosStep ==
    /\ variant = "dual" /\ pc = "ros" /\ pc' # pc
    /\ ros_client /\ Len(rosRx) > 0 /\ Head(rosRx) = "g"

StopWebStep ==
    /\ variant = "dual" /\ pc = "web" /\ pc' # pc
    /\ web_client /\ Len(webRx) > 0 /\ Head(webRx) = "I"

StopStationStep ==
    /\ variant = "single" /\ pc = "begin" /\ pc' = "end"
    /\ peer /\ Len(rx) > 0 /\ Head(rx) = "I"

\* Both enable pins end HIGH; every other output pin keeps its level and is
\* not written.
StopEffect ==
    /\ hw'.pins[DOOR_ENABLE_PIN] = HIGH
    /\ hw'.pins[PLATE_ENABLE_PIN] = HIGH
    /\ \A p \in DOMAIN hw.pins \ {DOOR_ENABLE_PIN, PLATE_ENABLE_PIN} :
          hw'.pins[p] = hw.pins[p]
    /\ PinLevels(hw'.writes) = PinLevels(hw.writes) \o StopWrites

(* C7: in both variants, from any pin state, StopAllMotors sets the door    *)
(* enable pin and the plate enable pin HIGH and leaves both direction pins  *)
(* and, in the dual-channel variant, the relay pin and wirelessPowerState   *)
(* unchanged.                                                               *)
C7_StopAllMotorsFrame ==
    [][ /\ (StopRosStep \/ StopWebStep) =>
              StopEffect /\ wirelessPowerState' = wirelessPowerState
        /\ StopStationStep => StopEffect ]_vars

\* 'g' was just dispatched with the door closing, the plate retracting and the
\* relay on: both motors are stopped, the directions and the relay are as before.
C7_Witness ==
    /\ variant = "dual" /\ pc = "web" /\ rosCommand = "g"
    /\ hw.pins[DOOR_ENABLE_PIN] = HIGH /\ hw.pins[PLATE_ENABLE_PIN] = HIGH
    /\ hw.pins[DOOR_DIRECTION_PIN] = HIGH /\ hw.pins[PLATE_DIRECTION_PIN] = HIGH
    /\ hw.pins[WPT_RELAY_PIN] = HIGH /\ wirelessPowerState = 0

---------------------------------------------------------------------------
\* The iteration of Station.cpp that reads byte b and dispatches it.
StationStep(b) ==
    /\ variant = "single" /\ pc = "begin" /\ pc' = "end"
    /\ peer /\ Len(rx) > 0 /\ Head(rx) = b

\* The sensor levels at that iteration.
DoorSensorLow  == photo[DOOR_PHOTO_PIN] = LOW
PlateSensorLow == photo[PLATE_PHOTO_PIN] = LOW

\* The step makes exactly the pin writes ws, in order, and the pins end with
\* the levels written, every other pin as before.
Performs(ws) ==
    /\ PinLevels(hw'.writes) = PinLevels(hw.writes) \o ws
    /\ \A p \in DOMAIN hw.pins :
          hw'.pins[p] =
              IF \E i \in 1..Len(ws) : ws[i][1] = p
              THEN LET last == CHOOSE i \in 1..Len(ws) :
                                  /\ ws[i][1] = p
                                  /\ \A j \in (i+1)..Len(ws) : ws[j][1] # p
                   IN ws[last][2]
              ELSE hw.pins[p]

(* C8: single-channel station: handling 'A' while the door sensor reads     *)
(* HIGH changes and writes no pin; while it reads LOW it performs           *)
(* ExtendPlate (plate direction LOW, plate enable LOW) and nothing else.    *)
(* Only the sensor level at this command decides, whatever was read for     *)
(* earlier commands.                                                        *)
C8_ExtendOnlyIfDoorClosed ==
    [][ StationStep("A") =>
           IF DoorSensorLow THEN Performs(ExtendWrites) ELSE hw' = hw ]_vars

\* 'A' was handled with the door sensor HIGH and the plate sensor LOW while
\* the plate motor was retracting: nothing was written, it still retracts.
C8_Witness ==
    /\ variant = "single" /\ pc = "end" /\ command = "A"
    /\ ~isDoorClosed /\ isPlateIn
    /\ photo[DOOR_PHOTO_PIN] = HIGH
    /\ hw.writes = <<>>
    /\ hw.pins[PLATE_DIRECTION_PIN] = HIGH /\ hw.pins[PLATE_ENABLE_PIN] = LOW

(* C9: single-channel station: handling 'E' performs CloseDoor (door        *)
(* direction HIGH, door enable LOW), and nothing else, if the plate sensor  *)
(* reads LOW at this command; with the plate sensor HIGH it changes and     *)
(* writes no pin.                                                           *)
C9_CloseOnlyIfPlateIn ==
    [][ StationStep("E") =>
           IF PlateSensorLow THEN Performs(CloseWrites) ELSE hw' = hw ]_vars

\* 'E' was handled with the plate sensor LOW and the door sensor HIGH while
\* the door was opening: the door now closes.
C9_Witness ==
    /\ variant = "single" /\ pc = "end" /\ command = "E"
    /\ isPlateIn /\ ~isDoorClosed
    /\ PinLevels(hw.writes) = CloseWrites
    /\ hw.pins[DOOR_DIRECTION_PIN] = HIGH /\ hw.pins[DOOR_ENABLE_PIN] = LOW

(* C10 as claimed: single-channel station: handling 'G' with the plate      *)
(* sensor HIGH writes no pin; with the plate sensor LOW it performs         *)
(* OpenDoor and then ExtendPlate, for either door-sensor reading.           *)
C10_Original ==
    (variant = "single" /\ pc = "end" /\ command = "G") =>
        IF PlateSensorLow
        THEN PinLevels(hw.writes) = OpenWrites \o ExtendWrites
        ELSE hw.writes = <<>>

(* C10, amended: single-channel station: handling 'G' with the plate sensor *)
(* HIGH changes and writes no pin; with the plate sensor LOW it performs    *)
(* OpenDoor and then, only if the door sensor read LOW (isDoorClosed) in    *)
(* the same pre-action snapshot, ExtendPlate; with the door sensor HIGH it  *)
(* performs OpenDoor alone.                                                 *)
C10_TakeOffGuards ==
    [][ StationStep("G") =>
           IF PlateSensorLow
           THEN IF DoorSensorLow THEN Performs(OpenWrites \o ExtendWrites)
                                 ELSE Performs(OpenWrites)
           ELSE hw' = hw ]_vars

\* 'G' was handled with the plate sensor LOW and the door sensor HIGH: the
\* door opens and the plate, stopped before, stays stopped.
C10_Witness ==
    /\ variant = "single" /\ pc = "end" /\ command = "G"
    /\ isPlateIn /\ ~isDoorClosed
    /\ PinLevels(hw.writes) = OpenWrites
    /\ hw.pins[DOOR_ENABLE_PIN] = LOW /\ hw.pins[PLATE_ENABLE_PIN] = HIGH

---------------------------------------------------------------------------
(* C11: single-channel station: handling 'H' always performs RetractPlate;  *)
(* then CloseDoor if and only if the plate sensor read LOW (isPlateIn);     *)
(* then StopAllMotors if and only if both the plate sensor and the door     *)
(* sensor read LOW, both levels being those of the one snapshot taken       *)
(* before any motor action.  With both sensors LOW, 'H' ends with both      *)
(* enable pins HIGH and both direction pins HIGH.                           *)
C11_LandingGuards ==
    [][ StationStep("H") =>
           /\ IF PlateSensorLow
              THEN IF DoorSensorLow
                   THEN Performs(RetractWrites \o CloseWrites \o StopWrites)
                   ELSE Performs(RetractWrites \o CloseWrites)
              ELSE Performs(RetractWrites)
           /\ (PlateSensorLow /\ DoorSensorLow) =>
                 \A p \in MotorPins : hw'.pins[p] = HIGH ]_vars

\* 'H' was handled with both sensors LOW: six pin writes, all four motor pins
\* HIGH.
C11_Witness ==
    /\ variant = "single" /\ pc = "end" /\ command = "H"
    /\ isPlateIn /\ isDoorClosed
    /\ PinLevels(hw.writes) = RetractWrites \o CloseWrites \o StopWrites
    /\ \A p \in MotorPins : hw.pins[p] = HIGH

---------------------------------------------------------------------------
\* The thread is inside TakeOffSequence() or LandingSequence().
InSequence == variant = "dual" /\ pc = "seq"

\* Nothing is read from either channel: the unread bytes can only grow.
NothingRead ==
    /\ Len(rosRx') >= Len(rosRx) /\ SubSeq(rosRx', 1, Len(rosRx)) = rosRx
    /\ Len(webRx') >= Len(webRx) /\ SubSeq(webRx', 1, Len(webRx)) = webRx
    /\ rosCommand' = rosCommand /\ webCommand' = webCommand

\* No write of the relay pin among the pin writes from index n + 1 on.
RelayUnwrittenSince(h, n) ==
    \A i \in (n + 1)..Len(h.writes) : h.writes[i].pin # WPT_RELAY_PIN

(* C12: dual-channel station: from its call on, a sequence stays in         *)
(* progress (it can always take its next statement) until it has executed   *)
(* all of its statements: it is left only by its return, with both          *)
(* primitives issued (four pin writes) and both delays elapsed (70000 ms).  *)
(* While it runs no byte is read from either channel, no client is polled   *)
(* (ros_client, web_client and alreadyConnected keep their values), and the *)
(* relay pin is neither written nor changed, whatever wirelessPowerState    *)
(* is and whatever bytes are pending.                                       *)
C12_SequenceRunsToCompletion ==
    [][ InSequence =>
          /\ ENABLED (SeqCall \/ SeqDelay \/ SeqReturn)
          /\ NothingRead
          /\ ros_client' = ros_client /\ web_client' = web_client
          /\ alreadyConnected' = alreadyConnected
          /\ hw'.pins[WPT_RELAY_PIN] = hw.pins[WPT_RELAY_PIN]
          /\ RelayUnwrittenSince(hw', frame.base)
          /\ wirelessPowerState' = wirelessPowerState
          /\ IF pc' = "seq"
             THEN /\ frame'.fn = frame.fn /\ frame'.ret = frame.ret
                  /\ frame'.at \in {frame.at, frame.at + 1}
             ELSE /\ SeqDone
                  /\ Len(SeqWrites) = 4
                  /\ SeqElapsed = 70000 ]_vars

\* A landing called from the web switch is waiting in its second delay;
\* channel A switched the relay state on earlier in this iteration, the relay
\* pin is still LOW, and a byte is pending on each channel.
C12_Witness ==
    /\ InSequence /\ frame.fn = "LandingSequence" /\ frame.ret = "web"
    /\ frame.at = 4
    /\ rosCommand = "e" /\ wirelessPowerState = 0
    /\ hw.pins[WPT_RELAY_PIN] = LOW
    /\ Len(rosRx) = 1 /\ Len(webRx) = 1

---------------------------------------------------------------------------
\* What a step may do to the unread bytes q of a channel whose switch runs at
\* position at, with client object c and local command cmd: leave them, let a
\* byte arrive behind them, or (once per iteration, by that switch) take the
\* oldest one, which becomes the command.
BufferStep(q, qNext, at, c, cmd, cmdNext) ==
    \/ qNext = q /\ cmdNext \in {cmd, "none"}
    \/ Len(qNext) = Len(q) + 1 /\ SubSeq(qNext, 1, Len(q)) = q /\ cmdNext = cmd
    \/ /\ pc = at /\ c /\ cmd = "none"
       /\ Len(q) > 0 /\ cmdNext = Head(q) /\ qNext = Tail(q)

\* The switch at position at runs with a valid client and an unread byte.
ReadDue(q, at, c) == variant = "dual" /\ pc = at /\ pc' # pc /\ c /\ Len(q) > 0

(* C13: dual-channel station: an iteration takes at most one byte from each *)
(* channel, the oldest, and exactly one when the channel's client is valid  *)
(* and a byte is unread when its switch runs; the bytes behind it stay      *)
(* unread, in order; no byte leaves a buffer in any other way, and the byte *)
(* taken is the one dispatched.                                             *)
C13_OneBytePerChannelPerIteration ==
    [][ /\ BufferStep(rosRx, rosRx', "ros", ros_client, rosCommand, rosCommand')
        /\ BufferStep(webRx, webRx', "web", web_client, webCommand, webCommand')
        /\ ReadDue(rosRx, "ros", ros_client) =>
              rosCommand' = Head(rosRx) /\ rosRx' = Tail(rosRx)
        /\ ReadDue(webRx, "web", web_client) =>
              webCommand' = Head(webRx) /\ webRx' = Tail(webRx) ]_vars

\* An iteration ends having read 'a' from channel A while 'b', sent behind
\* it, is still unread.
C13_Witness ==
    /\ DualEnd
    /\ rosCommand = "a"
    /\ rosRx = <<"b">>
    /\ PinLevels(hw.writes) = ExtendWrites \o << <<WPT_RELAY_PIN, LOW>> >>

---------------------------------------------------------------------------
\* The state setup() leaves: motors stopped, relay state off and relay pin
\* LOW, no client marked connected, nothing read or written yet.
Booted ==
    /\ pc = "begin"
    /\ hw.pins[DOOR_ENABLE_PIN] = HIGH /\ hw.pins[PLATE_ENABLE_PIN] = HIGH
    /\ variant = "dual" =>
          /\ wirelessPowerState = 1
          /\ hw.pins[WPT_RELAY_PIN] = LOW
          /\ ~alreadyConnected /\ ~ros_client /\ ~web_client
          /\ rosRx = <<>> /\ webRx = <<>>
    /\ variant = "single" => ~client /\ rx = <<>>

\* A step of loop() that dispatches a relay-on command.
RelayOnStep ==
    /\ variant = "dual" /\ pc' # pc
    /\ \/ pc = "ros" /\ ros_client /\ Len(rosRx) > 0 /\ Head(rosRx) = "e"
       \/ pc = "web" /\ web_client /\ Len(webRx) > 0 /\ Head(webRx) = "C"

RelayIsOff == wirelessPowerState = 1 /\ hw.pins[WPT_RELAY_PIN] = LOW

(* C14: after setup() both enable pins are HIGH, wirelessPowerState is off, *)
(* the relay pin is LOW and no client is marked connected; and in the       *)
(* dual-channel station every step other than the dispatch of a relay-on    *)
(* command ('e' on channel A, 'C' on channel B) keeps wirelessPowerState    *)
(* off and the relay pin LOW: until the first such command the relay state  *)
(* is off and the pin LOW at every moment, so at the end of every           *)
(* iteration, with or without a client.                                     *)
C14_BootStateAndRelayStaysOff ==
    /\ Booted
    /\ [][ (variant = "dual" /\ RelayIsOff /\ ~RelayOnStep) => RelayIsOff' ]_vars

\* An iteration with clients on both channels and a command from each ends
\* with the relay state off and the relay pin written LOW.
C14_Witness ==
    /\ DualEnd
    /\ ros_client /\ web_client
    /\ rosCommand = "g" /\ webCommand = "A"
    /\ RelayIsOff
    /\ LastWrite = [pin |-> WPT_RELAY_PIN, level |-> LOW, at |-> 0]

---------------------------------------------------------------------------
NewClientLine == "New client connected"

\* The step of loop() that polls both servers (lines 73-84). Before it,
\* ros_client and web_client still hold what the previous iteration polled.
PollStep == variant = "dual" /\ pc = "begin" /\ pc' # "begin"

\* A step that writes no "New client connected" line.
NoNewClientLine ==
    \A i \in 1..Len(serial') :
        serial'[i] = NewClientLine => i <= Len(serial) /\ serial[i] = NewClientLine

---------------------------------------------------------------------------
\* The step of loop() that reads byte b from a channel and dispatches it.
RosStep(b) ==
    /\ variant = "dual" /\ pc = "ros" /\ pc' # pc
    /\ ros_client /\ Len(rosRx) > 0 /\ Head(rosRx) = b

WebStep(b) ==
    /\ variant = "dual" /\ pc = "web" /\ pc' # pc
    /\ web_client /\ Len(webRx) > 0 /\ Head(webRx) = b

RelayOnCommand  == RosStep("e") \/ WebStep("C")
RelayOffCommand == RosStep("f") \/ WebStep("F")

(* C16: in the dual-channel station wirelessPowerState changes only in the  *)
(* dispatch of a relay command: 'e' or 'C' leaves it on (0), 'f' or 'F'     *)
(* leaves it off (1); every other step (motor commands, sequence commands   *)
(* and their statements, StopAllMotors, unknown bytes, the relay drive)     *)
(* leaves it unchanged; and the dispatch of a relay command writes no pin:  *)
(* the four motor pins keep their levels.                                   *)
C16_RelayStateFrame ==
    [][ /\ RelayOnCommand  => wirelessPowerState' = 0
        /\ RelayOffCommand => wirelessPowerState' = 1
        /\ ~(RelayOnCommand \/ RelayOffCommand)
              => wirelessPowerState' = wirelessPowerState
        /\ (RelayOnCommand \/ RelayOffCommand)
              => /\ \A p \in MotorPins : hw'.pins[p] = hw.pins[p]
                 /\ hw'.writes = hw.writes ]_vars

\* 'e' was dispatched on channel A while the door motor ran: the relay state
\* is on, no pin was written, the door enable pin is still LOW.
C16_Witness ==
    /\ variant = "dual" /\ pc = "web"
    /\ rosCommand = "e"
    /\ wirelessPowerState = 0
    /\ hw.writes = <<>>
    /\ hw.pins[DOOR_ENABLE_PIN] = LOW /\ hw.pins[PLATE_ENABLE_PIN] = HIGH

---------------------------------------------------------------------------
\* The command read from channel A is still being dispatched: its sequence
\* runs, its acknowledgment is not written yet.
DispatchingA == variant = "dual" /\ pc = "seq" /\ frame.ret = "ros"

\* The iteration has read a byte from each channel.
BothDispatched == variant = "dual" /\ rosCommand # "none" /\ webCommand # "none"

\* What channel A has been sent once the command read from it is done.
AckOf(b) == IF b \in RosAlphabet THEN <<UpperCase(b)>> ELSE <<>>

\* The pins hold the last level that the writes ws give them.
HoldsLast(ws) ==
    \A i \in 1..Len(ws) :
        (\A j \in (i+1)..Len(ws) : ws[j][1] # ws[i][1])
            => hw.pins[ws[i][1]] = ws[i][2]

SequenceTime == DOOR_TIME + PLATE_TIME

(* C17: dual-channel station, an iteration that reads a byte from both      *)
(* channels: while the channel-A command is being dispatched nothing of     *)
(* channel B is read or done; when the channel-B command is dispatched the  *)
(* channel-A command is complete: all its pin writes are made, first in the *)
(* iteration, its acknowledgment is written, and after a sequence on A      *)
(* every later pin write is made no earlier than 70000 ms into the          *)
(* iteration.  At the end of the iteration the pin writes are A's, then     *)
(* B's, then the relay's; the pins B wrote hold B's levels; a relay command *)
(* on B determines wirelessPowerState (otherwise one on A does), and the    *)
(* relay pin follows it.                                                    *)
C17_ChannelABeforeB ==
    /\ DispatchingA => webCommand = "none" /\ webTx = <<>>
    /\ BothDispatched =>
         LET wa == RowWrites(TableA(rosCommand))
             wb == RowWrites(TableB(webCommand))
         IN /\ rosTx = AckOf(rosCommand)
            /\ Len(hw.writes) >= Len(wa)
            /\ SubSeq(PinLevels(hw.writes), 1, Len(wa)) = wa
            /\ TableA(rosCommand) \in {"TakeOff", "Landing"} =>
                  \A i \in (Len(wa) + 1)..Len(hw.writes) :
                      hw.writes[i].at >= SequenceTime
            /\ pc = "end" =>
                  /\ SubSeq(PinLevels(hw.writes), 1, Len(hw.writes) - 1) = wa \o wb
                  /\ LastWrite.pin = WPT_RELAY_PIN
                  /\ HoldsLast(wb)
                  /\ RowPower(TableB(webCommand), wirelessPowerState)
                  /\ TableB(webCommand) \notin {"RelayOn", "RelayOff"} =>
                        RowPower(TableA(rosCommand), wirelessPowerState)
                  /\ (hw.pins[WPT_RELAY_PIN] = HIGH) <=> (wirelessPowerState = 0)

\* 'e' on channel A and 'F' on channel B in one iteration: it ends with 'E'
\* acknowledged, the relay state off and the relay pin written LOW.
C17_Witness ==
    /\ DualEnd
    /\ rosCommand = "e" /\ webCommand = "F"
    /\ rosTx = <<"E">>
    /\ wirelessPowerState = 1
    /\ PinLevels(hw.writes) = << <<WPT_RELAY_PIN, LOW>> >>
    /\ hw.pins[WPT_RELAY_PIN] = LOW

---------------------------------------------------------------------------
EnablePins == {DOOR_ENABLE_PIN, PLATE_ENABLE_PIN}

\* The pin writes a step adds to the iteration's.
WrittenBy(h, hNext) == SubSeq(hNext.writes, Len(h.writes) + 1, Len(hNext.writes))

\* The running sequence returns to loop().
SequenceReturns == variant = "dual" /\ pc = "seq" /\ pc' # "seq"

StopAllMotorsStep == StopRosStep \/ StopWebStep

(* C18: dual-channel station: when TakeOffSequence or LandingSequence       *)
(* returns, the door enable pin and the plate enable pin are both LOW; an   *)
(* enable pin is HIGH after a step only if the step dispatched g or I       *)
(* (StopAllMotors), or the pin was HIGH before and the step did not write   *)
(* it, so that a HIGH enable pin was last written by StopAllMotors or by    *)
(* setup(); and a StopAllMotors step leaves both enable pins HIGH: the two  *)
(* become HIGH only together.                                               *)
C18_SequencesKeepMotorsEnergized ==
    [][ variant = "dual" =>
          /\ SequenceReturns =>
                /\ Len(SeqWrites) = 4
                /\ \A p \in EnablePins : hw'.pins[p] = LOW
          /\ \A p \in EnablePins :
                hw'.pins[p] = HIGH =>
                   \/ StopAllMotorsStep
                   \/ /\ hw.pins[p] = HIGH
                      /\ \A i \in 1..Len(WrittenBy(hw, hw')) :
                            WrittenBy(hw, hw')[i].pin # p
          /\ StopAllMotorsStep => \A p \in EnablePins : hw'.pins[p] = HIGH ]_vars

\* LandingSequence, started by 'H' on channel B after a StopAllMotors, has
\* returned: four pin writes, 70000 ms, both enable pins LOW.
C18_Witness ==
    /\ variant = "dual" /\ pc = "relay"
    /\ rosCommand = "g" /\ webCommand = "H"
    /\ PinLevels(hw.writes) = StopWrites \o RetractWrites \o CloseWrites
    /\ hw.now = SequenceTime
    /\ \A p \in EnablePins : hw.pins[p] = LOW

---------------------------------------------------------------------------
\* Pin write i of the iteration is the direction write of ExtendPlate / of
\* CloseDoor: no other primitive writes that level to that pin.
ExtendPlateWrite(i) ==
    hw.writes[i].pin = PLATE_DIRECTION_PIN /\ hw.writes[i].level = LOW

CloseDoorWrite(i) ==
    hw.writes[i].pin = DOOR_DIRECTION_PIN /\ hw.writes[i].level = HIGH

(* C19: single-channel station: whenever an iteration has made the pin      *)
(* writes of ExtendPlate, it is handling a command, its snapshot has        *)
(* isDoorClosed true and the door sensor read LOW; whenever it has made the *)
(* pin writes of CloseDoor, it is handling a command, its snapshot has      *)
(* isPlateIn true and the plate sensor read LOW; and each of those writes   *)
(* is followed by the LOW write of the motor's enable pin.                  *)
C19_GuardedPrimitives ==
    variant = "single" =>
        \A i \in 1..Len(hw.writes) :
            /\ ExtendPlateWrite(i) =>
                  /\ command # "none" /\ isDoorClosed /\ DoorSensorLow
                  /\ i < Len(hw.writes)
                  /\ hw.writes[i + 1].pin = PLATE_ENABLE_PIN
                  /\ hw.writes[i + 1].level = LOW
            /\ CloseDoorWrite(i) =>
                  /\ command # "none" /\ isPlateIn /\ PlateSensorLow
                  /\ i < Len(hw.writes)
                  /\ hw.writes[i + 1].pin = DOOR_ENABLE_PIN
                  /\ hw.writes[i + 1].level = LOW

\* 'H' handled with the plate in and the door open: the plate was told to
\* retract and the door to close, and the motors were not stopped.
C19_Witness ==
    /\ variant = "single" /\ pc = "end"
    /\ command = "H"
    /\ isPlateIn /\ ~isDoorClosed
    /\ PinLevels(hw.writes) = RetractWrites \o CloseWrites
    /\ hw.pins[DOOR_ENABLE_PIN] = LOW /\ hw.pins[PLATE_ENABLE_PIN] = LOW

---------------------------------------------------------------------------
\* The iteration read a sequence command from channel A.
SequenceOnA == variant = "dual" /\ rosCommand \in {"z", "x"}

(* C20: dual-channel station, 'z' or 'x' read from channel A: while the     *)
(* sequence runs nothing has been written to channel A; and whenever the    *)
(* iteration has written to channel A, it has written exactly 'Z' for z or  *)
(* 'X' for x, the sequence has returned, its four pin writes (both          *)
(* primitives) are made and at least 70000 ms (both delays) have elapsed    *)
(* in the iteration.                                                        *)
C20_AckAfterSequence ==
    SequenceOnA =>
        /\ DispatchingA => rosTx = <<>>
        /\ rosTx # <<>> =>
              /\ rosTx = <<UpperCase(rosCommand)>>
              /\ ~DispatchingA
              /\ Len(hw.writes) >= 4
              /\ SubSeq(PinLevels(hw.writes), 1, 4) = RowWrites(TableA(rosCommand))
              /\ hw.writes[3].at >= IF rosCommand = "z" THEN DOOR_TIME ELSE PLATE_TIME
              /\ hw.now >= SequenceTime
        /\ (pc \in {"web", "relay", "end"} \/ (pc = "seq" /\ frame.ret = "web"))
              => rosTx # <<>>

\* LandingSequence for 'x' has just returned: 'X' is written, 70000 ms after
\* the byte was read, with the four pin writes made.
C20_Witness ==
    /\ SequenceOnA /\ pc = "web"
    /\ rosCommand = "x"
    /\ rosTx = <<"X">>
    /\ hw.now = SequenceTime
    /\ PinLevels(hw.writes) = RetractWrites \o CloseWrites

====
